---- MODULE Spec2Model ----
(***************************************************************************)
(* The layout-remapping engine of the Layout Remapper node.  The           *)
(* repository holds two implementations of the node's transformation       *)
(* effect:                                                                 *)
(*   "Row"      - RemapperInstanceRow, src/unnamed/part_000                *)
(*   "Instance" - RemapperInstance,    src/components/RemapperNode.tsx     *)
(* Both read a source context (container, layers, aiStrategy), a target    *)
(* container and a feedback entry, and register one payload.               *)
(*                                                                         *)
(* JavaScript numbers are modelled as exact rationals together with the    *)
(* IEEE-754 special values NaN, +Infinity and -Infinity, and `undefined`   *)
(* (which arithmetic turns into NaN).  Rounding and the sign of zero are   *)
(* not modelled: no divisor of the engine can be a negative zero for the   *)
(* inputs considered.                                                      *)
(***************************************************************************)
EXTENDS Integers, Sequences, FiniteSets, TLC

(***************************************************************************)
(* JavaScript numbers                                                      *)
(***************************************************************************)
Abs(i) == IF i < 0 THEN -i ELSE i

RECURSIVE Gcd(_, _)
Gcd(a, b) == IF b = 0 THEN a ELSE Gcd(b, a % b)

\* n/d in lowest terms with a positive denominator (d # 0)
Rat(n, d) ==
    LET g == Gcd(Abs(n), Abs(d))
        s == IF d < 0 THEN -1 ELSE 1
    IN  [k |-> "fin", n |-> (s * n) \div g, d |-> (s * d) \div g]

Num(i) == [k |-> "fin", n |-> i, d |-> 1]
NaN == [k |-> "nan", n |-> 0, d |-> 1]
Inf(sign) == [k |-> "inf", n |-> sign, d |-> 1]
Undef == [k |-> "undef", n |-> 0, d |-> 1]

IsNaN(a) == a.k \in {"nan", "undef"}
IsFinite(a) == a.k = "fin"
Sgn(i) == IF i < 0 THEN -1 ELSE IF i > 0 THEN 1 ELSE 0

\* a + b
Add(a, b) ==
    IF IsNaN(a) \/ IsNaN(b) THEN NaN
    ELSE IF a.k = "inf" THEN (IF b.k = "inf" /\ b.n # a.n THEN NaN ELSE a)
    ELSE IF b.k = "inf" THEN b
    ELSE Rat(a.n * b.d + b.n * a.d, a.d * b.d)

Neg(a) == IF IsNaN(a) THEN NaN ELSE [a EXCEPT !.n = -a.n]

\* a - b
Sub(a, b) == Add(a, Neg(b))

\* a * b
Mul(a, b) ==
    IF IsNaN(a) \/ IsNaN(b) THEN NaN
    ELSE IF a.k = "inf" \/ b.k = "inf"
         THEN (IF a.n = 0 \/ b.n = 0 THEN NaN ELSE Inf(Sgn(a.n) * Sgn(b.n)))
    ELSE Rat(a.n * b.n, a.d * b.d)

\* a / b  (a zero divisor is +0)
Div(a, b) ==
    IF IsNaN(a) \/ IsNaN(b) THEN NaN
    ELSE IF a.k = "inf"
         THEN (IF b.k = "inf" THEN NaN ELSE Inf(a.n * (IF b.n < 0 THEN -1 ELSE 1)))
    ELSE IF b.k = "inf" THEN Num(0)
    ELSE IF b.n = 0 THEN (IF a.n = 0 THEN NaN ELSE Inf(Sgn(a.n)))
    ELSE Rat(a.n * b.d, a.d * b.n)

\* a < b  (false when either is NaN)
Lt(a, b) ==
    IF IsNaN(a) \/ IsNaN(b) THEN FALSE
    ELSE IF a.k = "inf" THEN a.n < 0 /\ ~(b.k = "inf" /\ b.n < 0)
    ELSE IF b.k = "inf" THEN b.n > 0
    ELSE a.n * b.d < b.n * a.d

\* a >= b  (false when either is NaN)
Geq(a, b) == ~IsNaN(a) /\ ~IsNaN(b) /\ ~Lt(a, b)

\* Math.min(a, b), Math.max(a, b): NaN when either is NaN
MathMin(a, b) == IF IsNaN(a) \/ IsNaN(b) THEN NaN ELSE IF Lt(b, a) THEN b ELSE a
MathMax(a, b) == IF IsNaN(a) \/ IsNaN(b) THEN NaN ELSE IF Lt(a, b) THEN b ELSE a

\* truthiness of a number: not undefined, not NaN, not 0
Truthy(a) == ~IsNaN(a) /\ ~(a.k = "fin" /\ a.n = 0)

\* a || b on numbers
OrElse(a, b) == IF Truthy(a) THEN a ELSE b

(***************************************************************************)
(* Optional objects: <<>> is null/undefined, <<v>> is the object v.        *)
(***************************************************************************)
Null == <<>>
Some(v) == <<v>>
Undefined == "undefined"

\* array.find(p): the first matching element, if any
RECURSIVE FindOverride(_, _)
FindOverride(overrides, layerId) ==
    IF overrides = <<>> THEN Null
    ELSE IF Head(overrides).layerId = layerId THEN Some(Head(overrides))
    ELSE FindOverride(Tail(overrides), layerId)

(***************************************************************************)
(* Data                                                                    *)
(*   Rect     [x, y, w, h]                    numbers                      *)
(*   Layer    [id, type, coords, layoutRole, children]                     *)
(*   Override [layerId, xOffset, yOffset, individualScale, rotation,       *)
(*             layoutRole]   (xOffset and yOffset are numbers: the code    *)
(*             adds them without a default)                                *)
(*   Strategy [method, suggestedScale, layoutMode, overrides,              *)
(*             replaceLayerId, generativePrompt, preventOverlap,           *)
(*             timestamp, isExplicitIntent]                                *)
(*   Feedback [overrides, isCommitted]                                     *)
(* JavaScript booleans that may be unset are "true", "false", "undefined". *)
(* linkedAnchorId, citedRule, previewUrl, sourceReference, triangulation   *)
(* and the container names are passed through untouched and are left out.  *)
(***************************************************************************)
Rect(x, y, w, h) == [x |-> Num(x), y |-> Num(y), w |-> Num(w), h |-> Num(h)]

(***************************************************************************)
(* Override resolution                                                     *)
(***************************************************************************)
\* part_000: feedback first, then the strategy (also when feedback has no match)
getOverride(layerId, feedback, strategy) ==
    LET manual == IF feedback # Null
                  THEN FindOverride(feedback[1].overrides, layerId)
                  ELSE Null
    IN  IF manual # Null THEN manual
        ELSE IF strategy # Null
             THEN FindOverride(strategy[1].overrides, layerId)
             ELSE Null

\* RemapperNode.tsx: one list is chosen for the whole run; an array, also an
\* empty one, is truthy, so feedback's list hides the strategy's
Inst_overrides(feedback, aiStrategy) ==
    IF feedback # Null THEN feedback[1].overrides
    ELSE IF aiStrategy # Null THEN aiStrategy[1].overrides
    ELSE <<>>

Inst_getOverride(layerId, feedback, aiStrategy) ==
    FindOverride(Inst_overrides(feedback, aiStrategy), layerId)

\* strategy?.field for a number field
StrategyNum(strategy, field) ==
    IF strategy = Null THEN Undef ELSE strategy[1][field]

\* strategy?.field for a string or boolean field
StrategyStr(strategy, field) ==
    IF strategy = Null THEN Undefined ELSE strategy[1][field]

(***************************************************************************)
(* part_000: RemapperInstanceRow                                           *)
(***************************************************************************)
\* the base scale: the strategy's suggestedScale when truthy, else cover
Row_baseScale(src, tgt, strategy) ==
    LET scaleX == Div(tgt.w, src.w)
        scaleY == Div(tgt.h, src.h)
    IN  IF Truthy(StrategyNum(strategy, "suggestedScale"))
        THEN StrategyNum(strategy, "suggestedScale")
        ELSE MathMax(scaleX, scaleY)

\* 1./2. the layer's rectangle at the base scale, the scaled source centred
\* in the target
Row_place(layer, src, tgt, baseScale) ==
    LET relX == Sub(layer.coords.x, src.x)
        relY == Sub(layer.coords.y, src.y)
        scaledW == Mul(src.w, baseScale)
        scaledH == Mul(src.h, baseScale)
        offsetX == Div(Sub(tgt.w, scaledW), Num(2))
        offsetY == Div(Sub(tgt.h, scaledH), Num(2))
    IN  [x |-> Add(Add(Mul(relX, baseScale), offsetX), tgt.x),
         y |-> Add(Add(Mul(relY, baseScale), offsetY), tgt.y),
         w |-> Mul(layer.coords.w, baseScale),
         h |-> Mul(layer.coords.h, baseScale)]

\* 3. apply one override: add the offsets, then scale about the centre
Row_override(rect, ov, indScale) ==
    LET cx == Add(Add(rect.x, ov.xOffset), Div(rect.w, Num(2)))
        cy == Add(Add(rect.y, ov.yOffset), Div(rect.h, Num(2)))
        newW == Mul(rect.w, indScale)
        newH == Mul(rect.h, indScale)
    IN  [x |-> Sub(cx, Div(newW, Num(2))), y |-> Sub(cy, Div(newH, Num(2))),
         w |-> newW, h |-> newH]

\* 4. construct the result
Row_result(layer, coords, scale, rotation, strategy, children) ==
    LET replaced == strategy # Null /\ strategy[1].replaceLayerId = layer.id
    IN  [id |-> layer.id,
         type |-> IF replaced /\ strategy[1].method = "GENERATIVE"
                  THEN "generative" ELSE layer.type,
         coords |-> coords,
         transform |-> [scaleX |-> scale, scaleY |-> scale,
                        offsetX |-> coords.x, offsetY |-> coords.y,
                        rotation |-> rotation],
         layoutRole |-> layer.layoutRole,
         generativePrompt |-> IF replaced THEN strategy[1].generativePrompt ELSE Undefined,
         children |-> children]

Row_transformWith(layer, override, baseScale, rect, strategy, children) ==
    IF override = Null
    THEN Row_result(layer, rect, baseScale, Num(0), strategy, children)
    ELSE Row_result(layer,
                    Row_override(rect, override[1], OrElse(override[1].individualScale, Num(1))),
                    Mul(baseScale, OrElse(override[1].individualScale, Num(1))),
                    IF Truthy(override[1].rotation) THEN override[1].rotation ELSE Num(0),
                    strategy, children)

\* B. the recursive transformer
RECURSIVE transformLayer(_, _, _, _, _, _)
transformLayer(layer, src, tgt, baseScale, feedback, strategy) ==
    Row_transformWith(layer, getOverride(layer.id, feedback, strategy), baseScale,
                      Row_place(layer, src, tgt, baseScale), strategy,
                      [i \in DOMAIN layer.children |->
                          transformLayer(layer.children[i], src, tgt, baseScale,
                                         feedback, strategy)])

Row_mapWith(layers, src, tgt, baseScale, feedback, strategy) ==
    [i \in DOMAIN layers |-> transformLayer(layers[i], src, tgt, baseScale, feedback, strategy)]

Row_map(layers, src, tgt, feedback, strategy) ==
    Row_mapWith(layers, src, tgt, Row_baseScale(src, tgt, strategy), feedback, strategy)

\* the clearance the collision solver keeps between neighbours
padding == 10

\* the candidates of the collision solver, as indices into the top-level list
Row_flowItems(transformedLayers, feedback, strategy) ==
    LET isFlow(l) ==
            LET override == getOverride(l.id, feedback, strategy)
                role == IF override # Null THEN override[1].layoutRole ELSE Undefined
            IN  role = "flow" \/ (role = Undefined /\ l.type # "group")
    IN  SelectSeq([i \in DOMAIN transformedLayers |-> i],
                  LAMBDA i : isFlow(transformedLayers[i]))

\* flowItems.sort((a, b) => a.coords.x - b.coords.x): stable; a NaN
\* difference counts as "equal"
RECURSIVE Row_insert(_, _, _)
Row_insert(sorted, i, layers) ==
    IF sorted = <<>> THEN <<i>>
    ELSE LET last == sorted[Len(sorted)]
         IN  IF Lt(layers[i].coords.x, layers[last].coords.x)
             THEN Append(Row_insert(SubSeq(sorted, 1, Len(sorted) - 1), i, layers), last)
             ELSE Append(sorted, i)

RECURSIVE Row_sortByX(_, _)
Row_sortByX(items, layers) ==
    IF items = <<>> THEN <<>>
    ELSE Row_insert(Row_sortByX(SubSeq(items, 1, Len(items) - 1), layers),
                    items[Len(items)], layers)

\* for (let i = 1; i < flowItems.length; i++) { ... }   (i is 1-based here)
RECURSIVE Row_sweep(_, _, _, _, _)
Row_sweep(layers, order, i, feedback, strategy) ==
    IF i > Len(order) THEN layers
    ELSE LET prev == layers[order[i - 1]]
             curr == layers[order[i]]
             currOverride == getOverride(curr.id, feedback, strategy)
             prevEnd == Add(prev.coords.x, prev.coords.w)
             limit == Add(prevEnd, Num(padding))
             diff == Sub(limit, curr.coords.x)
         IN  IF currOverride # Null
             THEN Row_sweep(layers, order, i + 1, feedback, strategy)
             ELSE IF Lt(curr.coords.x, limit)
                  THEN Row_sweep([layers EXCEPT
                                     ![order[i]].coords.x = Add(@, diff),
                                     ![order[i]].transform.offsetX = Add(@, diff)],
                                 order, i + 1, feedback, strategy)
                  ELSE Row_sweep(layers, order, i + 1, feedback, strategy)

\* the collision solver run on every list of children as well as on the root list
RECURSIVE Row_solve_everyDepth(_, _, _)
Row_solve_everyDepth(transformedLayers, feedback, strategy) ==
    LET below == [i \in DOMAIN transformedLayers |->
                     [transformedLayers[i] EXCEPT
                         !.children = Row_solve_everyDepth(@, feedback, strategy)]]
    IN  IF StrategyStr(strategy, "preventOverlap") = "true"
        THEN Row_sweep(below,
                       Row_sortByX(Row_flowItems(below, feedback, strategy), below),
                       2, feedback, strategy)
        ELSE transformedLayers

\* the guard as `preventOverlap !== false`: the sweep runs when the rule is unset
Row_solve_unlessFalse(transformedLayers, feedback, strategy) ==
    IF StrategyStr(strategy, "preventOverlap") # "false"
    THEN Row_sweep(transformedLayers,
                   Row_sortByX(Row_flowItems(transformedLayers, feedback, strategy),
                               transformedLayers),
                   2, feedback, strategy)
    ELSE transformedLayers

\* C. collision solver, on the root list only
Row_solve(transformedLayers, feedback, strategy) ==
    IF StrategyStr(strategy, "preventOverlap") = "true"
    THEN Row_sweep(transformedLayers,
                   Row_sortByX(Row_flowItems(transformedLayers, feedback, strategy),
                               transformedLayers),
                   2, feedback, strategy)
    ELSE transformedLayers

Row_isConfirmed(feedback) ==
    IF feedback # Null /\ feedback[1].isCommitted = "true" THEN "true" ELSE "false"

Row_generationId(strategy, now) == OrElse(StrategyNum(strategy, "timestamp"), Num(now))

requiresGeneration(strategy) ==
    IF StrategyStr(strategy, "method") \in {"GENERATIVE", "HYBRID"} THEN "true" ELSE "false"

\* D. the payload, around the root list the solver (C) returned
Row_payload(transformedLayers, sourceData, targetData, feedback, now) ==
    LET src == sourceData.container.bounds
        tgt == targetData.bounds
        strategy == sourceData.aiStrategy
    IN  [status |-> "success",
         layers |-> transformedLayers,
         scaleFactor |-> Row_baseScale(src, tgt, strategy),
         targetBounds |-> tgt,
         isConfirmed |-> Row_isConfirmed(feedback),
         requiresGeneration |-> requiresGeneration(strategy),
         generationId |-> Row_generationId(strategy, now)]

(***************************************************************************)
(* RemapperNode.tsx: RemapperInstance                                      *)
(***************************************************************************)
\* contain: the smaller of the two axis ratios
Inst_uniformScale(src, tgt) == MathMin(Div(tgt.w, src.w), Div(tgt.h, src.h))

\* the scale of one layer: individualScale replaces suggestedScale
Inst_finalScale(override, src, tgt, aiStrategy) ==
    LET uniformScale == Inst_uniformScale(src, tgt)
    IN  IF override # Null /\ Truthy(override[1].individualScale)
        THEN Mul(uniformScale, override[1].individualScale)
        ELSE IF Truthy(StrategyNum(aiStrategy, "suggestedScale"))
             THEN Mul(uniformScale, StrategyNum(aiStrategy, "suggestedScale"))
             ELSE uniformScale

\* 2. the position: centred in the target, or the override's offsets from
\* the target's origin
Inst_place(override, tgt, layerW, layerH) ==
    IF override # Null
    THEN [x |-> Add(tgt.x, override[1].xOffset), y |-> Add(tgt.y, override[1].yOffset),
          w |-> layerW, h |-> layerH]
    ELSE [x |-> Sub(Add(tgt.x, Div(tgt.w, Num(2))), Div(layerW, Num(2))),
          y |-> Sub(Add(tgt.y, Div(tgt.h, Num(2))), Div(layerH, Num(2))),
          w |-> layerW, h |-> layerH]

Inst_result(layer, override, finalScale, tgt, aiStrategy, children) ==
    [id |-> layer.id,
     type |-> IF aiStrategy # Null /\ aiStrategy[1].replaceLayerId = layer.id
              THEN "generative" ELSE layer.type,
     coords |-> Inst_place(override, tgt, Mul(layer.coords.w, finalScale),
                           Mul(layer.coords.h, finalScale)),
     transform |-> [scaleX |-> finalScale, scaleY |-> finalScale,
                    offsetX |-> Num(0), offsetY |-> Num(0),
                    rotation |-> IF override # Null
                                 THEN OrElse(override[1].rotation, Num(0))
                                 ELSE Num(0)],
     layoutRole |-> IF override # Null THEN override[1].layoutRole ELSE Undefined,
     generativePrompt |-> IF StrategyStr(aiStrategy, "method") \in {"GENERATIVE", "HYBRID"}
                          THEN aiStrategy[1].generativePrompt ELSE Undefined,
     children |-> children]

Inst_transformWith(layer, override, src, tgt, aiStrategy, children) ==
    Inst_result(layer, override, Inst_finalScale(override, src, tgt, aiStrategy),
                tgt, aiStrategy, children)

\* layers.map(layer => ...) of transformLayers, for one layer and its subtree
RECURSIVE Inst_transformLayer(_, _, _, _, _)
Inst_transformLayer(layer, src, tgt, feedback, aiStrategy) ==
    Inst_transformWith(layer, Inst_getOverride(layer.id, feedback, aiStrategy),
                       src, tgt, aiStrategy,
                       [i \in DOMAIN layer.children |->
                           Inst_transformLayer(layer.children[i], src, tgt,
                                               feedback, aiStrategy)])

Inst_map(layers, src, tgt, feedback, aiStrategy) ==
    [i \in DOMAIN layers |-> Inst_transformLayer(layers[i], src, tgt, feedback, aiStrategy)]

\* A. the candidates of the grid solver, as indices into the top-level list
gridCandidates(transformed, feedback, aiStrategy) ==
    LET isCandidate(l) ==
            /\ Inst_getOverride(l.id, feedback, aiStrategy) = Null
            /\ (l.layoutRole = Undefined \/ l.layoutRole = "flow")
    IN  SelectSeq([i \in DOMAIN transformed |-> i],
                  LAMBDA i : isCandidate(transformed[i]))

\* the slot's near edge for its centre: the step / 2 left out
Inst_slotCenter_edge(origin, total, n, idx) ==
    LET margin == Mul(total, Rat(5, 100))
        available == Sub(total, Mul(margin, Num(2)))
        step == Div(available, Num(n))
    IN  Add(Add(origin, margin), Mul(step, Num(idx)))

\* the centre of slot idx (0-based) of n slots along an axis of the target
Inst_slotCenter(origin, total, n, idx) ==
    LET margin == Mul(total, Rat(5, 100))
        available == Sub(total, Mul(margin, Num(2)))
        step == Div(available, Num(n))
    IN  Add(Add(Add(origin, margin), Mul(step, Num(idx))), Div(step, Num(2)))

\* STEP 3 & 4: the physics engine, at root depth and with a strategy only
Inst_solve(transformed, tgt, feedback, aiStrategy) ==
    LET cands == gridCandidates(transformed, feedback, aiStrategy)
        n == Len(cands)
        mode == StrategyStr(aiStrategy, "layoutMode")
        \* the 0-based position of top-level index i among the candidates
        idxOf(i) == (CHOOSE k \in 1..n : cands[k] = i) - 1
        isCand(i) == \E k \in 1..n : cands[k] = i
    IN  IF aiStrategy = Null \/ n = 0 THEN transformed
        ELSE IF mode \in {"DISTRIBUTE_HORIZONTAL", "GRID"}
        THEN [i \in DOMAIN transformed |->
                 IF isCand(i)
                 THEN [transformed[i] EXCEPT !.coords.x =
                          Sub(Inst_slotCenter(tgt.x, tgt.w, n, idxOf(i)),
                              Div(transformed[i].coords.w, Num(2)))]
                 ELSE transformed[i]]
        ELSE IF mode = "DISTRIBUTE_VERTICAL"
        THEN [i \in DOMAIN transformed |->
                 IF isCand(i)
                 THEN [transformed[i] EXCEPT !.coords.y =
                          Sub(Inst_slotCenter(tgt.y, tgt.h, n, idxOf(i)),
                              Div(transformed[i].coords.h, Num(2)))]
                 ELSE transformed[i]]
        ELSE transformed

\* feedback?.isCommitted || aiStrategy?.isExplicitIntent
Inst_isConfirmed(feedback, aiStrategy) ==
    IF feedback # Null /\ feedback[1].isCommitted = "true" THEN "true"
    ELSE StrategyStr(aiStrategy, "isExplicitIntent")

\* Date.now()
Inst_generationId(aiStrategy, now) == Num(now)

\* the payload, around the root list transformLayers returned
Inst_payload(resultLayers, sourceContext, targetBounds, feedback, now) ==
    LET aiStrategy == sourceContext.aiStrategy
    IN  [status |-> "success",
         layers |-> resultLayers,
         scaleFactor |-> Num(1),
         targetBounds |-> targetBounds,
         isConfirmed |-> Inst_isConfirmed(feedback, aiStrategy),
         requiresGeneration |-> requiresGeneration(aiStrategy),
         generationId |-> Inst_generationId(aiStrategy, now)]

(***************************************************************************)
(* Inputs considered                                                       *)
(***************************************************************************)
\* the longest top-level layer list
MaxLayers == 4
\* the latest reading of Date.now()
MaxClock == 1

Clock == 0..MaxClock

LayerIds == <<"L1", "L2", "L3", "L4", "L5", "L6">>

Layer(id, type, x, y, w, h, layoutRole, children) ==
    [id |-> id, type |-> type, coords |-> Rect(x, y, w, h),
     layoutRole |-> layoutRole, children |-> children]

\* the nested layers of the second top-level layer: a child with a grandchild,
\* and a sibling that overlaps the child
Nested ==
    << Layer("L2a", "layer", 12, 2, 2, 2, Undefined,
             << Layer("L2b", "layer", 13, 3, 1, 1, "flow", <<>>) >>),
       Layer("L2c", "layer", 13, 5, 2, 2, Undefined, <<>>) >>

\* top-level layer i of a tree; "tagged" trees carry own roles and a group
LayerAt(i, variant) ==
    LET w == IF i = 1 THEN 50 ELSE 5 * i
        type == IF variant = "tagged" /\ i % 2 = 0 THEN "group" ELSE "layer"
        role == IF variant = "plain" THEN Undefined
                ELSE IF i % 3 = 1 THEN "flow"
                ELSE IF i % 3 = 0 THEN "background" ELSE Undefined
    IN  Layer(LayerIds[i], type, 10 * (i - 1), 0, w, w, role,
              IF i = 2 THEN Nested ELSE <<>>)

Tree(n, variant) == [i \in 1..n |-> LayerAt(i, variant)]

Trees == { Tree(n, "plain") : n \in 1..MaxLayers } \cup { Tree(MaxLayers, "tagged") }

Override(layerId, xOffset, yOffset, individualScale, rotation, layoutRole) ==
    [layerId |-> layerId, xOffset |-> Num(xOffset), yOffset |-> Num(yOffset),
     individualScale |-> individualScale, rotation |-> rotation,
     layoutRole |-> layoutRole]

StrategyOverrides ==
    { <<>>,
      << Override("L3", 0, 0, Undef, Undef, Undefined) >>,
      << Override("L1", 5, -5, Num(2), Num(90), "flow"),
         Override("L2a", 0, 0, Rat(1, 2), Undef, "background"),
         Override("LX", 1, 1, Undef, Undef, Undefined) >> }

Strategy(method, suggestedScale, layoutMode, overrides, replaceLayerId, preventOverlap, timestamp, isExplicitIntent) ==
    [method |-> method, suggestedScale |-> suggestedScale, layoutMode |-> layoutMode,
     overrides |-> overrides, replaceLayerId |-> replaceLayerId,
     generativePrompt |-> "prompt", preventOverlap |-> preventOverlap,
     timestamp |-> timestamp, isExplicitIntent |-> isExplicitIntent]

LayoutModes ==
    {Undefined, "NONE", "GRID", "DISTRIBUTE_HORIZONTAL", "DISTRIBUTE_VERTICAL", "SPIRAL"}

\* layoutMode and physicsRules.preventOverlap
SolverSettings ==
    (LayoutModes \X {Undefined, "true"}) \cup {<<"NONE", "false">>}

\* strategies that differ in what the mapper and the solver read
LayoutStrategies ==
    { Strategy("GEOMETRIC", s, mp[1], o, Undefined, mp[2], Undef, Undefined) :
        s \in {Undef, Num(2)}, mp \in SolverSettings, o \in StrategyOverrides }

\* strategies that differ in what the payload flags read
FlagStrategies ==
    { Strategy(m, Undef, "NONE", <<>>, r, Undefined, t, e) :
        m \in {"GEOMETRIC", "GENERATIVE", "HYBRID"}, r \in {Undefined, "L1", "L2a"},
        t \in {Undef, Num(5)}, e \in {Undefined, "false", "true"} }

SourceBounds ==
    {Rect(0, 0, 100, 100), Rect(20, 10, 100, 50), Rect(0, 0, 0, 100), Rect(0, 0, 0, 0)}

TargetBounds == {Rect(10, 10, 400, 200), Rect(0, 0, 200, 200)}

Source(bounds, layers, aiStrategy) ==
    [container |-> [bounds |-> bounds], layers |-> layers, aiStrategy |-> aiStrategy]

\* every geometry with every strategy the mapper and the solver can tell apart,
\* and one geometry with every strategy the payload flags can tell apart
Sources ==
    { Source(b, t, a) : b \in SourceBounds, t \in Trees,
                        a \in {Null} \cup {Some(st) : st \in LayoutStrategies} }
    \cup
    { Source(Rect(0, 0, 100, 100), Tree(MaxLayers, "plain"), Some(st)) :
        st \in FlagStrategies }

Targets == { [bounds |-> b] : b \in TargetBounds }

Feedbacks ==
    { [overrides |-> <<>>, isCommitted |-> "false"],
      [overrides |-> << Override("L1", 0, 0, Rat(1, 2), Undef, Undefined) >>,
       isCommitted |-> "true"] }

\* the inputs the wiring is exercised with
WiringSources ==
    { Source(Rect(0, 0, 100, 100), Tree(MaxLayers, "plain"), a) :
        a \in {Null, Some(Strategy("GEOMETRIC", Undef, "GRID", <<>>, Undefined,
                                    "true", Num(5), Undefined))} }

(***************************************************************************)
(* State                                                                   *)
(***************************************************************************)
VARIABLES
    impl,               \* which implementation of the node is mounted
    edges,              \* is source-in / target-in connected
    resolvedRegistry,   \* the source context behind the source edge, if any
    templateRegistry,   \* the container behind the target edge, if any
    feedbackRegistry,   \* the feedback stored for (nodeId, result-out-index)
    payloadRegistry,    \* the payload registered for (nodeId, result-out-index)
    mapped,             \* history: the mapper's output of the last emitting run, before the solver
    seen,               \* history: the inputs the last emitting run read
    outcome             \* history: "none", or how the last run of the effect ended

vars == <<impl, edges, resolvedRegistry, templateRegistry, feedbackRegistry,
          payloadRegistry, mapped, seen, outcome>>

\* 1. resolve source data: no edge, or nothing registered, is null
sourceData == IF edges.source THEN resolvedRegistry ELSE Null

\* 2. resolve target data
targetData == IF edges.target THEN templateRegistry ELSE Null

feedback == feedbackRegistry

\* the guard with && for ||: it returns only when both inputs are missing
InputsResolved_either == sourceData # Null \/ targetData # Null

\* if (!sourceData || !targetData) return;
InputsResolved == sourceData # Null /\ targetData # Null

TypeOK ==
    /\ impl \in {"Row", "Instance"}
    /\ edges \in [source : BOOLEAN, target : BOOLEAN]
    /\ outcome \in {"none", "idle", "emitted", "threw"}

\* the wiring is complete and stays so
Init ==
    /\ impl \in {"Row", "Instance"}
    /\ edges = [source |-> TRUE, target |-> TRUE]
    /\ resolvedRegistry \in {Some(s) : s \in Sources}
    /\ templateRegistry \in {Some(t) : t \in Targets}
    /\ feedbackRegistry \in {Null} \cup {Some(f) : f \in Feedbacks}
    /\ payloadRegistry = Null
    /\ mapped = Null
    /\ seen = Null
    /\ outcome = "none"

(***************************************************************************)
(* The transformation effect                                               *)
(***************************************************************************)
\* registerPayload(nodeId, `result-out-${index}`, payload), with the clock
\* read while the payload is built: payloadAt[now] is the payload built at now
Register(payloadAt, transformedLayers) ==
    \E now \in Clock :
        /\ payloadRegistry' = Some(payloadAt[now])
        /\ mapped' = Some(transformedLayers)
        /\ seen' = Some([source |-> sourceData[1], target |-> targetData[1],
                         feedback |-> feedback, now |-> now])
        /\ outcome' = "emitted"

\* B, C, D of part_000
Row_run(transformedLayers, resultLayers) ==
    Register([now \in Clock |-> Row_payload(resultLayers, sourceData[1], targetData[1],
                                             feedback, now)],
             transformedLayers)

Row_solved(transformedLayers) ==
    Row_run(transformedLayers,
            Row_solve(transformedLayers, feedback, sourceData[1].aiStrategy))

\* part_000, lines 75-231
RowEffect ==
    /\ impl = "Row"
    /\ IF ~InputsResolved
       THEN /\ outcome' = "idle"
            /\ UNCHANGED <<payloadRegistry, mapped, seen>>
       ELSE IF sourceData = Null \/ targetData = Null
       THEN \* reading a property of null throws a TypeError
            /\ outcome' = "threw"
            /\ UNCHANGED <<payloadRegistry, mapped, seen>>
       ELSE Row_solved(Row_map(sourceData[1].layers, sourceData[1].container.bounds,
                               targetData[1].bounds, feedback, sourceData[1].aiStrategy))
    /\ UNCHANGED <<impl, edges, resolvedRegistry, templateRegistry, feedbackRegistry>>

\* transformLayers(sourceLayers) and the payload of RemapperNode.tsx
Inst_run(transformed, resultLayers) ==
    Register([now \in Clock |-> Inst_payload(resultLayers, sourceData[1],
                                              targetData[1].bounds, feedback, now)],
             transformed)

Inst_solved(transformed) ==
    Inst_run(transformed,
             Inst_solve(transformed, targetData[1].bounds, feedback,
                        sourceData[1].aiStrategy))

\* RemapperNode.tsx, lines 71-222
InstanceEffect ==
    /\ impl = "Instance"
    /\ IF ~InputsResolved
       THEN /\ outcome' = "idle"
            /\ UNCHANGED <<payloadRegistry, mapped, seen>>
       ELSE IF sourceData = Null \/ targetData = Null
       THEN \* reading a property of null throws a TypeError
            /\ outcome' = "threw"
            /\ UNCHANGED <<payloadRegistry, mapped, seen>>
       ELSE Inst_solved(Inst_map(sourceData[1].layers, sourceData[1].container.bounds,
                                 targetData[1].bounds, feedback, sourceData[1].aiStrategy))
    /\ UNCHANGED <<impl, edges, resolvedRegistry, templateRegistry, feedbackRegistry>>

Next == RowEffect \/ InstanceEffect

Spec == Init /\ [][Next]_vars

(***************************************************************************)
(* The host: edges are connected and removed, registry entries appear,     *)
(* the reviewer sends feedback.  The effect runs again after any of these. *)
(***************************************************************************)
InitWiring ==
    /\ impl \in {"Row", "Instance"}
    /\ edges \in [source : BOOLEAN, target : BOOLEAN]
    /\ resolvedRegistry \in {Null} \cup {Some(s) : s \in WiringSources}
    /\ templateRegistry \in {Null} \cup {Some(t) : t \in Targets}
    /\ feedbackRegistry = Null
    /\ payloadRegistry = Null
    /\ mapped = Null
    /\ seen = Null
    /\ outcome = "none"

SetSourceEdge ==
    /\ edges' = [edges EXCEPT !.source = ~@]
    /\ UNCHANGED <<impl, resolvedRegistry, templateRegistry, feedbackRegistry,
                   payloadRegistry, mapped, seen, outcome>>

SetTargetEdge ==
    /\ edges' = [edges EXCEPT !.target = ~@]
    /\ UNCHANGED <<impl, resolvedRegistry, templateRegistry, feedbackRegistry,
                   payloadRegistry, mapped, seen, outcome>>

RegisterFeedback ==
    /\ feedbackRegistry' \in {Some(f) : f \in Feedbacks}
    /\ UNCHANGED <<impl, edges, resolvedRegistry, templateRegistry,
                   payloadRegistry, mapped, seen, outcome>>

NextWiring ==
    RowEffect \/ InstanceEffect \/ SetSourceEdge \/ SetTargetEdge \/ RegisterFeedback

SpecWiring == InitWiring /\ [][NextWiring]_vars

(***************************************************************************)
(* What the claims speak of                                                *)
(***************************************************************************)
\* the registered payload, the inputs its run read, the mapper's output of that run
Payload == payloadRegistry[1]
SeenStrategy == seen[1].source.aiStrategy
SeenFeedback == seen[1].feedback
SeenSource == seen[1].source.container.bounds
SeenTarget == seen[1].target.bounds
SeenLayers == seen[1].source.layers
Mapped == mapped[1]

\* a layer list with every nested layer, parents first
RECURSIVE Flat(_)
Flat(layers) ==
    IF layers = <<>> THEN <<>>
    ELSE <<Head(layers)>> \o Flat(Head(layers).children) \o Flat(Tail(layers))

FlatIds(layers) == { Flat(layers)[k].id : k \in DOMAIN Flat(layers) }

\* the override the mounted implementation resolves for a layer id
EngineOverride(layerId) ==
    IF impl = "Row" THEN getOverride(layerId, SeenFeedback, SeenStrategy)
    ELSE Inst_getOverride(layerId, SeenFeedback, SeenStrategy)

\* the first override of a list for a layer id, as the override resolver is specified
Matches(overrides, layerId) == { i \in DOMAIN overrides : overrides[i].layerId = layerId }
FirstMatch(overrides, layerId) ==
    overrides[CHOOSE i \in Matches(overrides, layerId) :
                 \A j \in Matches(overrides, layerId) : i <= j]
Resolution(layerId, fb, st) ==
    IF fb # Null /\ Matches(fb[1].overrides, layerId) # {}
    THEN Some(FirstMatch(fb[1].overrides, layerId))
    ELSE IF st # Null /\ Matches(st[1].overrides, layerId) # {}
    THEN Some(FirstMatch(st[1].overrides, layerId))
    ELSE Null

Positive(rect) == Lt(Num(0), rect.w) /\ Lt(Num(0), rect.h)
FiniteRect(rect) ==
    IsFinite(rect.x) /\ IsFinite(rect.y) /\ IsFinite(rect.w) /\ IsFinite(rect.h)
CenterX(rect) == Add(rect.x, Div(rect.w, Num(2)))
CenterY(rect) == Add(rect.y, Div(rect.h, Num(2)))

(***************************************************************************)
(* C1.  For every layer id and every combination of feedback and strategy, *)
(* the resolved override is feedback's override for that id if feedback    *)
(* has one, else the strategy's override for that id if the strategy has   *)
(* one (also when feedback is present without an override for the id),     *)
(* else none.  RemapperNode.tsx breaks this: a present feedback hides      *)
(* every strategy override.                                                *)
(***************************************************************************)
C1_Claim ==
    payloadRegistry # Null =>
        \A id \in FlatIds(SeenLayers) \cup {"LX"} :
            EngineOverride(id) = Resolution(id, SeenFeedback, SeenStrategy)

(***************************************************************************)
(* C2.  Every top-level layer that has a resolved override, from feedback  *)
(* or from the strategy, keeps in the payload the coords.x and coords.y    *)
(* the mapper gave it, whatever the layout mode and preventOverlap.        *)
(* (Stated for sources of positive size.)  In RemapperNode.tsx a layer the *)
(* strategy overrides is, with feedback present, mapped and slotted like a *)
(* layer without override (see C1).                                        *)
(***************************************************************************)
C2_Claim ==
    (payloadRegistry # Null /\ Positive(SeenSource)) =>
        \A i \in DOMAIN Payload.layers :
            Resolution(Payload.layers[i].id, SeenFeedback, SeenStrategy) # Null =>
                /\ Payload.layers[i].coords.x = Mapped[i].coords.x
                /\ Payload.layers[i].coords.y = Mapped[i].coords.y

(***************************************************************************)
(* C3.  A run of the effect with the source content or the target bounds   *)
(* unresolved registers nothing and raises no error: as long as an input   *)
(* is unresolved, no step changes the registered payload.                  *)
(***************************************************************************)
C3_IdleKeepsPayload ==
    [][ (sourceData = Null \/ targetData = Null) =>
            (payloadRegistry' = payloadRegistry /\ outcome' # "threw") ]_vars

\* an earlier payload is still registered after a run that found an input missing
C3_Witness ==
    /\ outcome = "idle"
    /\ payloadRegistry # Null
    /\ (sourceData = Null \/ targetData = Null)

(***************************************************************************)
(* C4.  No payload is registered for a source or target container whose    *)
(* width or height is zero or negative, and no registered payload holds a  *)
(* coordinate or scale that is NaN or infinite.  Neither implementation    *)
(* tests the containers: both divide by the source's width and height.     *)
(***************************************************************************)
FiniteLayer(l) ==
    /\ FiniteRect(l.coords)
    /\ IsFinite(l.transform.scaleX) /\ IsFinite(l.transform.scaleY)
    /\ IsFinite(l.transform.offsetX) /\ IsFinite(l.transform.offsetY)

C4_Claim ==
    payloadRegistry # Null =>
        /\ Positive(SeenSource) /\ Positive(SeenTarget)
        /\ \A k \in DOMAIN Flat(Payload.layers) : FiniteLayer(Flat(Payload.layers)[k])

(***************************************************************************)
(* C5.  With no strategy, every layer without override is mapped by the    *)
(* contain policy: s = min(target.w/source.w, target.h/source.h),          *)
(* x = (layer.x - source.x)*s + (target.w - source.w*s)/2 + target.x, y    *)
(* alike, w = layer.w*s, h = layer.h*s.  (Stated for sources of positive   *)
(* size.)  part_000 scales by max (cover); RemapperNode.tsx centres every  *)
(* layer in the target.                                                    *)
(***************************************************************************)
ContainRect(layer, src, tgt) ==
    LET sc == MathMin(Div(tgt.w, src.w), Div(tgt.h, src.h))
    IN  [x |-> Add(Add(Mul(Sub(layer.coords.x, src.x), sc),
                       Div(Sub(tgt.w, Mul(src.w, sc)), Num(2))), tgt.x),
         y |-> Add(Add(Mul(Sub(layer.coords.y, src.y), sc),
                       Div(Sub(tgt.h, Mul(src.h, sc)), Num(2))), tgt.y),
         w |-> Mul(layer.coords.w, sc),
         h |-> Mul(layer.coords.h, sc)]

C5_Claim ==
    (payloadRegistry # Null /\ SeenStrategy = Null /\ Positive(SeenSource)) =>
        \A k \in DOMAIN Flat(SeenLayers) :
            Resolution(Flat(SeenLayers)[k].id, SeenFeedback, SeenStrategy) = Null =>
                Flat(Payload.layers)[k].coords
                    = ContainRect(Flat(SeenLayers)[k], SeenSource, SeenTarget)

(***************************************************************************)
(* C6.  A layer whose resolved override has individualScale = s is s times *)
(* as wide and as high as at the base scale, and the centre of its mapped  *)
(* rectangle is the centre of its rectangle before the override.  Stated   *)
(* where that rectangle is beyond doubt: for overrides the implementation  *)
(* itself resolves, with offsets (0, 0), sources of positive size, the     *)
(* rectangle before the override being what the same implementation maps   *)
(* the layer to once all overrides are taken away.  RemapperNode.tsx puts  *)
(* the top-left corner of an overridden layer at the target's origin.      *)
(***************************************************************************)
WithoutOverrides(st) == IF st = Null THEN Null ELSE Some([st[1] EXCEPT !.overrides = <<>>])

BeforeOverride ==
    IF impl = "Row"
    THEN Flat(Row_map(SeenLayers, SeenSource, SeenTarget, Null, WithoutOverrides(SeenStrategy)))
    ELSE Flat(Inst_map(SeenLayers, SeenSource, SeenTarget, Null, WithoutOverrides(SeenStrategy)))

C6_Claim ==
    (payloadRegistry # Null /\ Positive(SeenSource)) =>
        \A k \in DOMAIN Flat(SeenLayers) :
            LET ov == EngineOverride(Flat(SeenLayers)[k].id)
                after == Flat(Payload.layers)[k].coords
                before == BeforeOverride[k].coords
            IN  (/\ ov # Null
                 /\ Truthy(ov[1].individualScale)
                 /\ ov[1].xOffset = Num(0) /\ ov[1].yOffset = Num(0)) =>
                    /\ after.w = Mul(before.w, ov[1].individualScale)
                    /\ after.h = Mul(before.h, ov[1].individualScale)
                    /\ CenterX(after) = CenterX(before)
                    /\ CenterY(after) = CenterY(before)

(***************************************************************************)
(* C7.  RemapperNode.tsx, layoutMode DISTRIBUTE_HORIZONTAL or GRID, target *)
(* of width W at x = target.x, n >= 1 flow candidates (the top-level       *)
(* layers for which the implementation finds no override and whose         *)
(* layoutRole is unset or "flow"), margin = 0.05*W, step = (W-2*margin)/n. *)
(* As amended: the i-th candidate in encounter order (i from 0) ends with  *)
(* coords.x = target.x + margin + step*i + step/2 - coords.w/2, so that    *)
(* its horizontal centre, when its width is finite, is                     *)
(* target.x + margin + step*i + step/2; its coords.y is the mapper's.      *)
(***************************************************************************)
C7_Applies ==
    /\ payloadRegistry # Null
    /\ impl = "Instance"
    /\ SeenStrategy # Null
    /\ SeenStrategy[1].layoutMode \in {"DISTRIBUTE_HORIZONTAL", "GRID"}

C7_Candidates ==
    SelectSeq([i \in DOMAIN Payload.layers |-> i],
              LAMBDA i : /\ EngineOverride(Payload.layers[i].id) = Null
                         /\ Payload.layers[i].layoutRole \in {Undefined, "flow"})

\* margin + step*i + step/2
C7_Slot(i, n) ==
    LET margin == Div(SeenTarget.w, Num(20))
        step == Div(Sub(SeenTarget.w, Add(margin, margin)), Num(n))
    IN  Add(Add(margin, Mul(step, Num(i))), Div(step, Num(2)))

C8_Applies ==
    /\ payloadRegistry # Null
    /\ impl = "Row"
    /\ StrategyStr(SeenStrategy, "preventOverlap") = "true"
    /\ \A i \in DOMAIN Payload.layers : FiniteRect(Payload.layers[i].coords)

C8_Locked(i) == Resolution(Payload.layers[i].id, SeenFeedback, SeenStrategy) # Null

C8_Eligible ==
    { i \in DOMAIN Payload.layers :
        ~C8_Locked(i) /\ SeenLayers[i].layoutRole \in {Undefined, "flow"} }

C8_SweepList ==
    { i \in DOMAIN Payload.layers :
        \E k \in DOMAIN Row_flowItems(Mapped, SeenFeedback, SeenStrategy) :
            Row_flowItems(Mapped, SeenFeedback, SeenStrategy)[k] = i }

\* p comes before q in ascending x with no candidate between them
C8_Neighbours(p, q, candidates) ==
    /\ p # q
    /\ Geq(Payload.layers[q].coords.x, Payload.layers[p].coords.x)
    /\ ~\E r \in candidates \ {p, q} :
           /\ Geq(Payload.layers[r].coords.x, Payload.layers[p].coords.x)
           /\ Geq(Payload.layers[q].coords.x, Payload.layers[r].coords.x)

C8_Separated(candidates) ==
    \A p, q \in candidates :
        (C8_Neighbours(p, q, candidates) /\ ~C8_Locked(q)) =>
            Geq(Payload.layers[q].coords.x,
                Add(Add(Payload.layers[p].coords.x, Payload.layers[p].coords.w),
                    Num(padding)))

C8_Claim ==
    C8_Applies => (C8_Separated(C8_Eligible) \/ C8_Separated(C8_SweepList))

(***************************************************************************)
(* C9.  When the strategy carries a timestamp, the payload's generationId  *)
(* is that timestamp, whatever the clock reads.  RemapperNode.tsx stamps   *)
(* every payload with Date.now().                                          *)
(***************************************************************************)
C9_Claim ==
    (payloadRegistry # Null /\ SeenStrategy # Null /\ SeenStrategy[1].timestamp # Undef) =>
        Payload.generationId = SeenStrategy[1].timestamp

(***************************************************************************)
(* C10.  isConfirmed is feedback.isCommitted when feedback exists, else    *)
(* the strategy's explicit-intent flag when the strategy carries one, else *)
(* false.  RemapperNode.tsx lets the flag overrule an uncommitted feedback *)
(* and yields undefined for "neither"; part_000 never reads the flag.      *)
(***************************************************************************)
C10_Claim ==
    payloadRegistry # Null =>
        Payload.isConfirmed =
            IF SeenFeedback # Null THEN SeenFeedback[1].isCommitted
            ELSE IF StrategyStr(SeenStrategy, "isExplicitIntent") # Undefined
                 THEN SeenStrategy[1].isExplicitIntent
                 ELSE "false"

(***************************************************************************)
(* C11.  The solver repositions a top-level layer only if it is a flow     *)
(* candidate: no resolved override, own layoutRole unset or "flow".  The   *)
(* formula states the part of it that rests on the layer's own role: a     *)
(* top-level layer without override, by the specified resolution and by    *)
(* the implementation's, whose own layoutRole is another value keeps the   *)
(* coords the mapper gave it.  (Stated for sources of positive size.)      *)
(* part_000 picks its candidates by the override's role and the layer's    *)
(* type; RemapperNode.tsx replaces the layer's role by the override's.     *)
(***************************************************************************)
C11_Claim ==
    (payloadRegistry # Null /\ Positive(SeenSource)) =>
        \A i \in DOMAIN Payload.layers :
            (/\ Resolution(SeenLayers[i].id, SeenFeedback, SeenStrategy) = Null
             /\ EngineOverride(SeenLayers[i].id) = Null
             /\ SeenLayers[i].layoutRole \notin {Undefined, "flow"}) =>
                Payload.layers[i].coords = Mapped[i].coords

(***************************************************************************)
(* C12.  A mapped layer, at any depth, has type "generative" and carries   *)
(* the strategy's generativePrompt exactly when strategy.method is         *)
(* GENERATIVE or HYBRID and strategy.replaceLayerId is the layer's id;     *)
(* every other layer keeps its type and has no prompt.  part_000 promotes  *)
(* under GENERATIVE only and hands the prompt out under any method;        *)
(* RemapperNode.tsx promotes under any method and gives every layer the    *)
(* prompt under GENERATIVE and HYBRID.                                     *)
(***************************************************************************)
C12_Promoted(layer) ==
    /\ StrategyStr(SeenStrategy, "method") \in {"GENERATIVE", "HYBRID"}
    /\ SeenStrategy[1].replaceLayerId = layer.id

C12_Claim ==
    payloadRegistry # Null =>
        \A k \in DOMAIN Flat(SeenLayers) :
            LET layer == Flat(SeenLayers)[k]
                result == Flat(Payload.layers)[k]
            IN  IF C12_Promoted(layer)
                THEN /\ result.type = "generative"
                     /\ result.generativePrompt = SeenStrategy[1].generativePrompt
                ELSE /\ result.type = layer.type
                     /\ result.generativePrompt = Undefined

(***************************************************************************)
(* C13.  One invocation has one baseScale b, and every layer at every      *)
(* depth has transform.scaleX = transform.scaleY = b * k, k being the      *)
(* individualScale of the layer's resolved override, or 1 without one.     *)
(* Stated without naming b: scaleX = scaleY for every layer, and           *)
(* scaleX(p) * k(q) = scaleX(q) * k(p) for any two layers.  Stated for     *)
(* sources of positive size and for inputs on which the implementation     *)
(* resolves every override as specified (see C1).  RemapperNode.tsx        *)
(* multiplies by suggestedScale only where no individualScale applies.     *)
(***************************************************************************)
C13_Factor(layer) ==
    LET ov == Resolution(layer.id, SeenFeedback, SeenStrategy)
    IN  IF ov = Null THEN Num(1) ELSE OrElse(ov[1].individualScale, Num(1))

C13_Applies ==
    /\ payloadRegistry # Null
    /\ Positive(SeenSource)
    /\ \A id \in FlatIds(SeenLayers) :
           EngineOverride(id) = Resolution(id, SeenFeedback, SeenStrategy)

C13_Claim ==
    C13_Applies =>
        \A p, q \in DOMAIN Flat(SeenLayers) :
            LET lp == Flat(Payload.layers)[p]
                lq == Flat(Payload.layers)[q]
            IN  /\ lp.transform.scaleX = lp.transform.scaleY
                /\ Mul(lp.transform.scaleX, C13_Factor(Flat(SeenLayers)[q]))
                     = Mul(lq.transform.scaleX, C13_Factor(Flat(SeenLayers)[p]))

(***************************************************************************)
(* C14.  The solver changes depth-0 layers only: whatever the layoutMode   *)
(* and preventOverlap, the subtree below every top-level layer (coords and *)
(* transform of every nested layer, at every depth) is in the payload what *)
(* the mapper produced, also for nested layers without override.           *)
(***************************************************************************)
C14_NestedUntouched ==
    payloadRegistry # Null =>
        \A i \in DOMAIN Payload.layers :
            Payload.layers[i].children = Mapped[i].children

\* the sweep moved a top-level layer while two nested siblings without override,
\* which the sweep would have pushed apart, stayed where the mapper put them
C14_Witness ==
    /\ payloadRegistry # Null
    /\ impl = "Row"
    /\ StrategyStr(SeenStrategy, "preventOverlap") = "true"
    /\ \E i \in DOMAIN Payload.layers :
           /\ FiniteRect(Payload.layers[i].coords)
           /\ Payload.layers[i].coords.x # Mapped[i].coords.x
    /\ \E i \in DOMAIN Payload.layers :
           /\ Len(Payload.layers[i].children) = 2
           /\ LET first == Payload.layers[i].children[1]
                  second == Payload.layers[i].children[2]
              IN  /\ EngineOverride(first.id) = Null
                  /\ EngineOverride(second.id) = Null
                  /\ FiniteRect(first.coords) /\ FiniteRect(second.coords)
                  /\ Geq(second.coords.x, first.coords.x)
                  /\ Lt(second.coords.x,
                        Add(Add(first.coords.x, first.coords.w), Num(padding)))

(***************************************************************************)
(* C15.  part_000's collision sweep: a locked (overridden) layer is        *)
(* neither a mover nor an anchor, i.e. every top-level layer without       *)
(* override ends at the x it would have if the overridden layers were      *)
(* taken out of the top-level list before the sweep.  (Stated for payloads *)
(* of finite coordinates.)  The sweep never moves a locked layer, but it   *)
(* measures the next layer against the locked layer's right edge.          *)
(***************************************************************************)
C15_Applies ==
    /\ payloadRegistry # Null
    /\ impl = "Row"
    /\ StrategyStr(SeenStrategy, "preventOverlap") = "true"
    /\ \A i \in DOMAIN Payload.layers : FiniteRect(Payload.layers[i].coords)

\* the mapper's top-level list without the overridden layers
C15_Unlocked ==
    SelectSeq(Mapped, LAMBDA l : Resolution(l.id, SeenFeedback, SeenStrategy) = Null)

\* the sweep over that list
C15_Expected == Row_solve(C15_Unlocked, SeenFeedback, SeenStrategy)

C15_Claim ==
    C15_Applies =>
        \A i \in DOMAIN Payload.layers :
            \A j \in DOMAIN C15_Expected :
                Payload.layers[i].id = C15_Expected[j].id =>
                    Payload.layers[i].coords.x = C15_Expected[j].coords.x

(***************************************************************************)
(* C16.  With layoutMode NONE, unset or not a mode the solver knows, and   *)
(* preventOverlap false or unset (a missing strategy included), a run of   *)
(* the effect with both inputs resolved registers a payload whose layers   *)
(* are, at every depth, the mapper's output.                               *)
(***************************************************************************)
C16_NoLayout(strategy) ==
    /\ StrategyStr(strategy, "layoutMode")
           \notin {"GRID", "DISTRIBUTE_HORIZONTAL", "DISTRIBUTE_VERTICAL"}
    /\ StrategyStr(strategy, "preventOverlap") \in {Undefined, "false"}

C16_MapperStands ==
    [][ (/\ sourceData # Null
         /\ targetData # Null
         /\ C16_NoLayout(sourceData[1].aiStrategy)) =>
            (/\ outcome' = "emitted"
             /\ payloadRegistry' # Null
             /\ payloadRegistry'[1].layers = mapped'[1]) ]_vars

\* a payload for an unknown layoutMode, with top-level layers that overlap
C16_Witness ==
    /\ outcome = "emitted"
    /\ SeenStrategy # Null
    /\ SeenStrategy[1].layoutMode = "SPIRAL"
    /\ C16_NoLayout(SeenStrategy)
    /\ Len(Payload.layers) >= 2
    /\ Payload.layers = Mapped
    /\ \A i \in DOMAIN Payload.layers : FiniteRect(Payload.layers[i].coords)
    /\ Lt(Payload.layers[2].coords.x,
          Add(Payload.layers[1].coords.x, Payload.layers[1].coords.w))

(***************************************************************************)
(* C17.  In every registered payload every layer, at every depth, has      *)
(* transform.offsetX = coords.x and transform.offsetY = coords.y, also     *)
(* after the solver moved it.  (Stated for sources of positive size.)      *)
(* RemapperNode.tsx writes 0 into both offsets; part_000 keeps them equal  *)
(* to the coords through the sweep.                                        *)
(***************************************************************************)
C17_Claim ==
    (payloadRegistry # Null /\ Positive(SeenSource)) =>
        \A k \in DOMAIN Flat(Payload.layers) :
            /\ Flat(Payload.layers)[k].transform.offsetX = Flat(Payload.layers)[k].coords.x
            /\ Flat(Payload.layers)[k].transform.offsetY = Flat(Payload.layers)[k].coords.y

====
